---- MODULE Spec2Model ----
(***************************************************************************)
(* A model of mail-builder's MIME part writer (src/src/mime.rs), boundary  *)
(* generator (make_boundary) and address header renderer                   *)
(* (src/src/headers/address.rs).                                           *)
(*                                                                         *)
(* Byte strings are sequences of symbols.  A symbol is one character       *)
(* ("a", "\"", "_") or an indivisible word ("Content-Type", "boundary=",   *)
(* "multipart/mixed") whose inner characters no operation looks at.        *)
(* An Option<T> is a sequence of length at most one: <<>> is None and      *)
(* <<x>> is Some(x).                                                       *)
(***************************************************************************)
EXTENDS Integers, Sequences, FiniteSets, TLC

VARIABLES
    tree,       \* the MimePart tree given to write_part: node id -> MimePart
    it,         \* write_part: the sibling cursor (node ids not yet taken)
    boundary,   \* write_part: the active boundary, Option<String>
    stack,      \* write_part: Vec<(cursor, boundary)>
    output,     \* the sink: the writes it has accepted, in order
    pc,         \* "loop" | "Ok" | "Err" | "panic"
    attempts,   \* number of writes attempted on the sink
    rejected,   \* number of writes the sink rejected
    visited,    \* node ids in the order it.next() returned them
    resolved,   \* node id -> the boundary write_part resolved for it
    COUNTER,    \* thread_local COUNTER: thread -> u64
    threadHash, \* thread -> hash of (hostname, thread id)
    made,       \* boundaries returned by make_boundary, in call order
    addr,       \* the Address given to Address::write_header
    hdr,        \* the name of the header the address is written under
    quoting,    \* whether rfc2047_encode quotes a plain display name
    pos,        \* Address::List: the position of the next element
    bytes_written \* Address::write_header's running column

mimeVars == <<tree, it, boundary, stack, output, pc, attempts, rejected,
              visited, resolved>>
mimeTraversal == <<tree, it, boundary, stack, visited, resolved>>
boundaryVars == <<COUNTER, threadHash, made>>
addrVars == <<addr, hdr, quoting, pos, bytes_written>>
vars == <<tree, it, boundary, stack, output, pc, attempts, rejected,
          visited, resolved, COUNTER, threadHash, made,
          addr, hdr, quoting, pos, bytes_written>>

----------------------------------------------------------------------------
(* Bounds *)

MaxNodes == 4       \* parts in a tree of the structural family
MaxHeaderNodes == 2 \* parts in a tree of the header family
MaxLeafNodes == 2   \* parts in a tree of the leaf family
NumThreads == 2     \* threads that call make_boundary
MaxTime == 1        \* timestamps a make_boundary call may observe: 0..MaxTime
WordBits == 8       \* width the u64 arithmetic of make_boundary is cut to

----------------------------------------------------------------------------
(* Generic helpers *)

Min(S) == CHOOSE x \in S : \A y \in S : x <= y

RECURSIVE Concat(_)
Concat(ss) == IF ss = <<>> THEN <<>> ELSE Head(ss) \o Concat(Tail(ss))

\* str::find: index of the first occurrence of pat in s, 0 when there is none
Find(s, pat) ==
    LET idx == {i \in 1..(Len(s) - Len(pat) + 1) :
                    SubSeq(s, i, i + Len(pat) - 1) = pat}
    IN IF idx = {} THEN 0 ELSE Min(idx)

Contains(s, pat) == Find(s, pat) # 0

CRLF == "\r\n"
Quote == "\""

----------------------------------------------------------------------------
(* make_boundary *)

Modulus == 2 ^ WordBits

\* 11400714819323198485 = 0x9E3779B97F4A7C15, cut to its low 8 bits (0x15)
GoldenMul == 21

HexDigits == <<"0", "1", "2", "3", "4", "5", "6", "7",
               "8", "9", "a", "b", "c", "d", "e", "f">>

\* format!("{:x}")
RECURSIVE Hex(_)
Hex(n) == IF n < 16 THEN <<HexDigits[n + 1]>>
          ELSE Hex(n \div 16) \o <<HexDigits[(n % 16) + 1]>>

\* hash.wrapping_add(c).wrapping_mul(11400714819323198485u64)
Mix(h, c) == (((h + c) % Modulus) * GoldenMul) % Modulus

\* c.replace(c.get() + 1): the value the counter holds after the call
NextCounterStuck(c) == c
NextCounter(c) == c + 1

\* format!("{:x}_{:x}_{:x}", nanos, mixed counter, hash)
MakeBoundary(ts, h, c) ==
    Hex(ts) \o <<"_">> \o Hex(Mix(h, c)) \o <<"_">> \o Hex(h)

Times == 0..MaxTime

----------------------------------------------------------------------------
(* Header values *)

BoundaryPattern == <<"boundary=", Quote>>

AttrGet(attrs, k) ==
    LET idx == {i \in 1..Len(attrs) : attrs[i].k = k}
    IN IF idx = {} THEN <<>> ELSE <<attrs[Min(idx)].v>>

AttrRemove(attrs, k) == SelectSeq(attrs, LAMBDA a : a.k # k)

\* BTreeMap entry(k) on a vacant key: "boundary" sorts before every other
\* attribute name the model uses ("charset", "filename", "type")
AttrInsertBoundary(attrs, v) == <<[k |-> "boundary", v |-> v]>> \o attrs

\* ContentType::write_header: the type, then ; name="value" per attribute
RECURSIVE AttrBytes(_)
AttrBytes(attrs) ==
    IF attrs = <<>> THEN <<>>
    ELSE <<"; ", Head(attrs).k \o "=", Quote>> \o Head(attrs).v \o <<Quote>>
         \o AttrBytes(Tail(attrs))

CtWriteHeader(ct) == <<ct.c_type>> \o AttrBytes(ct.attributes) \o <<CRLF>>

\* HeaderType::write_header for the header kinds the model uses
HeaderValueBytes(hv) ==
    CASE hv.t = "ContentType" -> CtWriteHeader(hv)
      [] hv.t = "Raw" -> hv.raw \o <<CRLF>>
      [] OTHER -> hv.text \o <<CRLF>>

\* ContentType::is_text / is_attachment
CtIsText(ct) == ct.c_type \in {"text/plain", "text/html"}
CtIsAttachment(ct) == ct.c_type = "attachment"

\* header_value.as_content_type().map(|v| v.is_text()).unwrap_or(false)
IsTextValue(hv) == hv.t = "ContentType" /\ CtIsText(hv)
IsAttachmentValue(hv) == hv.t = "ContentType" /\ CtIsAttachment(hv)

HeadersGet(headers, name) ==
    LET idx == {i \in 1..Len(headers) : headers[i].name = name}
    IN IF idx = {} THEN <<>> ELSE <<headers[Min(idx)].value>>

HeadersRemove(headers, name) == SelectSeq(headers, LAMBDA h : h.name # name)

----------------------------------------------------------------------------
(* MimePart trees: the inputs of write_part *)

Hdr(name, value) == [name |-> name, value |-> value]

ContentType(c_type, attributes) ==
    [t |-> "ContentType", c_type |-> c_type, attributes |-> attributes]
Raw(raw) == [t |-> "Raw", raw |-> raw]
Text(text) == [t |-> "Text", text |-> text]

Attr(k, v) == [k |-> k, v |-> v]

\* MimePart { headers, contents }: headers in BTreeMap (name) order; enc is
\* what get_encoding_type answers for this part's bytes
Part(contents, headers, body, enc) ==
    [contents |-> contents, headers |-> headers, body |-> body,
     enc |-> enc, parts |-> <<>>]

\* BTreeMap order of the header names used: Content-Disposition < Content-Type
Headers(cd, ct) ==
    (IF cd = <<>> THEN <<>> ELSE <<Hdr("Content-Disposition", cd[1])>>)
    \o (IF ct = <<>> THEN <<>> ELSE <<Hdr("Content-Type", ct[1])>>)

Inline == <<ContentType("inline", <<>>)>>
Attachment == <<ContentType("attachment", <<Attr("filename", <<"f">>)>>)>>

\* Content-Type headers of multipart parts
MultipartCTs ==
    { <<ContentType("multipart/mixed", <<Attr("boundary", <<"X">>)>>)>>,
      <<ContentType("multipart/related", <<Attr("type", <<"t">>)>>)>>,
      <<Raw(<<"multipart/mixed">>)>>,
      <<Raw(<<"multipart/mixed", "; ", "boundary=", Quote, "Y", Quote>>)>>,
      <<Text(<<"multipart/mixed">>)>>,
      <<>> }

RawWithBoundary == <<Raw(<<"multipart/mixed", "; ", "boundary=", Quote, "Y", Quote>>)>>

MultipartParts ==
    { Part("Multipart", Headers(<<>>, ct), <<>>, "None") : ct \in MultipartCTs }
    \cup { Part("Multipart", Headers(Inline, ct), <<>>, "None") :
             ct \in { RawWithBoundary,
                      <<ContentType("multipart/related", <<Attr("type", <<"t">>)>>)>> } }

\* the multipart parts of the structural family
NestingParts ==
    { Part("Multipart", Headers(<<>>, ct), <<>>, "None") :
        ct \in { <<ContentType("multipart/mixed", <<Attr("boundary", <<"X">>)>>)>>,
                 <<>> } }

EncodingTypes == {"Base64", "QuotedPrintable", "None"}

Bodies == { <<"a", "\n">>, <<"\r", "\n", "\n">> }

LeafCTs ==
    { <<>>,
      <<ContentType("text/plain", <<Attr("charset", <<"utf-8">>)>>)>>,
      <<ContentType("application/pdf", <<>>)>>,
      <<Raw(<<"text/plain">>)>> }

LeafParts ==
    { Part(c, Headers(cd, ct), b, e) :
        c \in {"Text", "Binary"}, cd \in {<<>>, Inline, Attachment},
        ct \in LeafCTs, b \in Bodies, e \in EncodingTypes }

\* MimePart::new_text
PlainText ==
    Part("Text", Headers(<<>>, <<ContentType("text/plain", <<Attr("charset", <<"utf-8">>)>>)>>),
         <<"a", "\n">>, "None")

\* parent vectors: node 1 is the root, every other node hangs under an
\* earlier node
Shapes(n) == { p \in [1..n -> 0..(n - 1)] :
                 p[1] = 0 /\ \A i \in 2..n : p[i] \in 1..(i - 1) }

RECURSIVE SortedSeq(_)
SortedSeq(S) == IF S = {} THEN <<>>
                ELSE LET m == Min(S) IN <<m>> \o SortedSeq(S \ {m})

Children(p, n, i) == SortedSeq({j \in 2..n : p[j] = i})

\* the parts node i may be under parent vector p: a node with children is
\* a Multipart
Allowed(p, n, i, parts) ==
    IF \E j \in 2..n : p[j] = i
    THEN { x \in parts : x.contents = "Multipart" }
    ELSE parts

\* the trees of shape p, built node by node (nodes 1..k so far)
RECURSIVE Assignments(_, _, _, _)
Assignments(p, n, k, parts) ==
    IF k = 0 THEN { <<>> }
    ELSE { Append(w, [x EXCEPT !.parts = Children(p, n, k)]) :
             w \in Assignments(p, n, k - 1, parts),
             x \in Allowed(p, n, k, parts) }

\* the trees of the shapes in S
RECURSIVE ShapeTrees(_, _, _)
ShapeTrees(S, n, parts) ==
    IF S = {} THEN {}
    ELSE LET p == CHOOSE q \in S : TRUE
         IN  Assignments(p, n, n, parts) \cup ShapeTrees(S \ {p}, n, parts)

\* the trees of 1..maxN nodes
RECURSIVE TreesOf(_, _)
TreesOf(maxN, parts) ==
    IF maxN = 0 THEN {}
    ELSE ShapeTrees(Shapes(maxN), maxN, parts) \cup TreesOf(maxN - 1, parts)

\* deep trees with few kinds of part; shallow trees with every kind of
\* multipart header; shallow trees with every kind of leaf
StructTrees == TreesOf(MaxNodes, NestingParts \cup {PlainText})
HeaderTrees == TreesOf(MaxHeaderNodes, MultipartParts \cup {PlainText})
LeafTrees == TreesOf(MaxLeafNodes,
                     LeafParts \cup {Part("Multipart", <<>>, <<>>, "None")})
Trees == StructTrees \cup HeaderTrees \cup LeafTrees

Root == 1
Nodes == DOMAIN tree

----------------------------------------------------------------------------
(* The sink *)

Chunk(node, kind, bytes) == [node |-> node, kind |-> kind, bytes |-> bytes]

\* A run of write_all(..)? calls.  f = 0: the sink accepts them all;
\* f = j: it rejects the j-th, and ? returns the error before any later write
SinkStepIgnoreErr(chunks, f) ==
    [out |-> IF f = 0 THEN chunks
             ELSE SubSeq(chunks, 1, f - 1) \o SubSeq(chunks, f + 1, Len(chunks)),
     att |-> Len(chunks),
     rej |-> IF f = 0 THEN 0 ELSE 1,
     err |-> FALSE]
SinkStep(chunks, f) ==
    [out |-> IF f = 0 THEN chunks ELSE SubSeq(chunks, 1, f - 1),
     att |-> IF f = 0 THEN Len(chunks) ELSE f,
     rej |-> IF f = 0 THEN 0 ELSE 1,
     err |-> f # 0]

----------------------------------------------------------------------------
(* MimePart::write_part *)

Threads == 1..NumThreads
MainThread == 1

\* output.write_all(b"\r\n--")?; write_all(boundary)?; write_all(b"\r\n")?
OpenDelim(b) ==
    IF b = <<>> THEN <<>>
    ELSE << Chunk(0, "open1", <<CRLF, "--">>),
            Chunk(0, "open2", b[1]),
            Chunk(0, "open3", <<CRLF>>) >>

\* output.write_all(b"\r\n--")?; write_all(boundary)?; write_all(b"--\r\n")?
CloseDelim(b) ==
    IF b = <<>> THEN <<>>
    ELSE << Chunk(0, "close1", <<CRLF, "--">>),
            Chunk(0, "close2", b[1]),
            Chunk(0, "close3", <<"--", CRLF>>) >>

\* for (header_name, header_value) in headers: name, ": ", value
RECURSIVE HeaderChunks(_, _)
HeaderChunks(n, headers) ==
    IF headers = <<>> THEN <<>>
    ELSE << Chunk(n, "hname", <<Head(headers).name>>),
            Chunk(n, "hsep", <<": ">>),
            Chunk(n, "hvalue", HeaderValueBytes(Head(headers).value)) >>
         \o HeaderChunks(n, Tail(headers))

\* the is_attachment flag of the Text branch's header loop
RECURSIVE TextIsAttachment(_, _)
TextIsAttachment(headers, is_attachment) ==
    IF headers = <<>> THEN is_attachment
    ELSE TextIsAttachment(Tail(headers),
            IF ~is_attachment /\ Head(headers).name = "Content-Disposition"
            THEN IsAttachmentValue(Head(headers).value)
            ELSE is_attachment)

\* the (is_text, is_attachment) flags of the Binary branch's header loop
RECURSIVE BinaryFlags(_, _, _)
BinaryFlags(headers, is_text, is_attachment) ==
    IF headers = <<>> THEN [is_text |-> is_text, is_attachment |-> is_attachment]
    ELSE LET h == Head(headers) IN
         IF ~is_text /\ h.name = "Content-Type"
         THEN BinaryFlags(Tail(headers), IsTextValue(h.value), is_attachment)
         ELSE IF ~is_attachment /\ h.name = "Content-Disposition"
         THEN BinaryFlags(Tail(headers), is_text, IsAttachmentValue(h.value))
         ELSE BinaryFlags(Tail(headers), is_text, is_attachment)

\* base64_encode and quoted_printable_encode, as opaque encodings
Base64Encode(input) == <<"base64[">> \o input \o <<"]">>
QuotedPrintableEncode(input, is_body) ==
    <<IF is_body THEN "qp-body[" ELSE "qp[">> \o input \o <<"]">>

\* a "\r" written before every "\n", whatever precedes it
RECURSIVE SevenBitBodyAlwaysCR(_, _, _)
SevenBitBodyAlwaysCR(n, input, prev_ch) ==
    IF input = <<>> THEN <<>>
    ELSE LET ch == Head(input) IN
         (IF ch = "\n" THEN <<Chunk(n, "body", <<"\r">>)>> ELSE <<>>)
         \o <<Chunk(n, "body", <<ch>>)>>
         \o SevenBitBodyAlwaysCR(n, Tail(input), ch)

\* detect_encoding, EncodingType::None with is_body: one write per byte, and
\* a "\r" written before a "\n" that does not follow a "\r"
RECURSIVE SevenBitBody(_, _, _)
SevenBitBody(n, input, prev_ch) ==
    IF input = <<>> THEN <<>>
    ELSE LET ch == Head(input) IN
         (IF ch = "\n" /\ prev_ch # "\r" THEN <<Chunk(n, "body", <<"\r">>)>> ELSE <<>>)
         \o <<Chunk(n, "body", <<ch>>)>>
         \o SevenBitBody(n, Tail(input), ch)

\* let mut prev_ch = 0
NUL == "NUL"

Base64Line == <<"Content-Transfer-Encoding: base64", CRLF, CRLF>>

\* detect_encoding(input, output, is_body); enc is get_encoding_type's answer
DetectEncoding(n, input, enc, is_body) ==
    CASE enc = "Base64" ->
           << Chunk(n, "cte", Base64Line),
              Chunk(n, "body", Base64Encode(input)) >>
      [] enc = "QuotedPrintable" ->
           << Chunk(n, "cte", <<"Content-Transfer-Encoding: quoted-printable", CRLF, CRLF>>),
              Chunk(n, "body", QuotedPrintableEncode(input, is_body)) >>
      [] OTHER ->
           <<Chunk(n, "cte", <<"Content-Transfer-Encoding: 7bit", CRLF, CRLF>>)>>
           \o (IF is_body THEN SevenBitBody(n, input, NUL)
               ELSE <<Chunk(n, "body", input)>>)

\* BodyPart::Text branch
TextChunks(n, part) ==
    HeaderChunks(n, part.headers)
    \o DetectEncoding(n, part.body, part.enc,
                      ~TextIsAttachment(part.headers, FALSE))

\* BodyPart::Binary branch
BinaryChunksAlwaysDetect(n, part) ==
    LET fl == BinaryFlags(part.headers, FALSE, FALSE) IN
    HeaderChunks(n, part.headers)
    \o DetectEncoding(n, part.body, part.enc, ~fl.is_attachment)
BinaryChunks(n, part) ==
    LET fl == BinaryFlags(part.headers, FALSE, FALSE) IN
    HeaderChunks(n, part.headers)
    \o (IF ~fl.is_text
        THEN << Chunk(n, "cte", Base64Line),
                Chunk(n, "body", Base64Encode(part.body)) >>
        ELSE DetectEncoding(n, part.body, part.enc, ~fl.is_attachment))

\* s.split('"').nth(1)
SplitNth1(s) ==
    LET q1 == Find(s, <<Quote>>) IN
    IF q1 = 0 THEN <<>>
    ELSE LET rest == SubSeq(s, q1 + 1, Len(s))
             q2 == Find(rest, <<Quote>>)
         IN <<IF q2 = 0 THEN rest ELSE SubSeq(rest, 1, q2 - 1)>>

\* The boundary resolution of the BodyPart::Multipart branch.  fresh is what
\* make_boundary() returns if it is called.  The result: the new active
\* boundary, the writes made for the Content-Type value, whether
\* make_boundary was called, and whether the branch panicked.
Resolution(b, writes, called) ==
    [boundary |-> b, writes |-> writes, called |-> called, panic |-> FALSE]

ResolveBoundaryAlwaysFresh(part, fresh) ==
    Resolution(<<fresh>>,
               <<CtWriteHeader(ContentType("multipart/mixed",
                                           <<Attr("boundary", fresh)>>))>>,
               TRUE)
ResolveBoundary(part, fresh) ==
    LET ctv == HeadersGet(part.headers, "Content-Type") IN
    IF ctv # <<>>
    THEN LET value == ctv[1] IN
         CASE value.t = "ContentType" ->
                LET vacant == AttrGet(value.attributes, "boundary") = <<>>
                    attrs == IF vacant
                             THEN AttrInsertBoundary(value.attributes, fresh)
                             ELSE value.attributes
                IN Resolution(AttrGet(attrs, "boundary"),
                              <<CtWriteHeader([value EXCEPT !.attributes = attrs])>>,
                              vacant)
           [] value.t = "Raw" ->
                LET at == Find(value.raw, BoundaryPattern) IN
                IF at # 0
                THEN LET nth == SplitNth1(SubSeq(value.raw, at, Len(value.raw))) IN
                     IF nth # <<>>
                     THEN Resolution(nth, <<>>, FALSE)
                     ELSE Resolution(<<fresh>>, <<>>, TRUE)
                ELSE Resolution(<<fresh>>,
                                << value.raw, <<"; ", "boundary=", Quote>>,
                                   fresh, <<Quote, CRLF>> >>,
                                TRUE)
           [] OTHER ->
                [boundary |-> <<>>, writes |-> <<>>, called |-> FALSE,
                 panic |-> TRUE]
    ELSE Resolution(<<fresh>>,
                    <<CtWriteHeader(ContentType("multipart/mixed",
                                                <<Attr("boundary", fresh)>>))>>,
                    TRUE)

\* if boundary.is_some() { stack.push((it, boundary)); }
ShouldPushNever(b) == FALSE
ShouldPushAlways(b) == TRUE
ShouldPush(b) == b # <<>>

\* The sink's part of every step
Sink(res) ==
    /\ output' = output \o res.out
    /\ attempts' = attempts + res.att
    /\ rejected' = rejected + res.rej

\* it.next() returned a Text part
VisitText ==
    /\ pc = "loop" /\ it # <<>>
    /\ LET n == Head(it)
           part == tree[n]
           chunks == OpenDelim(boundary) \o TextChunks(n, part)
       IN /\ part.contents = "Text"
          /\ \E f \in 0..Len(chunks) :
               LET res == SinkStep(chunks, f) IN
               /\ Sink(res)
               /\ pc' = IF res.err THEN "Err" ELSE "loop"
          /\ it' = Tail(it)
          /\ visited' = Append(visited, n)
    /\ UNCHANGED <<tree, boundary, stack, resolved, COUNTER, threadHash, made, addrVars>>

\* it.next() returned a Binary part
VisitBinary ==
    /\ pc = "loop" /\ it # <<>>
    /\ LET n == Head(it)
           part == tree[n]
           chunks == OpenDelim(boundary) \o BinaryChunks(n, part)
       IN /\ part.contents = "Binary"
          /\ \E f \in 0..Len(chunks) :
               LET res == SinkStep(chunks, f) IN
               /\ Sink(res)
               /\ pc' = IF res.err THEN "Err" ELSE "loop"
          /\ it' = Tail(it)
          /\ visited' = Append(visited, n)
    /\ UNCHANGED <<tree, boundary, stack, resolved, COUNTER, threadHash, made, addrVars>>

\* it.next() returned a Multipart part
VisitMultipart ==
    /\ pc = "loop" /\ it # <<>>
    /\ LET n == Head(it)
           part == tree[n]
       IN /\ part.contents = "Multipart"
          /\ \E ts \in Times :
             \E fresh \in {MakeBoundary(ts, threadHash[MainThread], COUNTER[MainThread])} :
             \E r \in {ResolveBoundary(part, fresh)} :
             \E delim \in {OpenDelim(boundary)} :
             \E pre \in {delim \o <<Chunk(n, "ctname", <<"Content-Type: ">>)>>} :
             \E post \in {IF r.panic THEN <<>>
                           ELSE [i \in 1..Len(r.writes) |-> Chunk(n, "ctvalue", r.writes[i])]
                                \o HeaderChunks(n, HeadersRemove(part.headers, "Content-Type"))
                                \o <<Chunk(n, "blank", <<CRLF>>)>>} :
             \E all \in {pre \o post} :
             \E f \in 0..Len(all) :
             \E res \in {SinkStep(all, f)} :
                    LET pastDelim == ~res.err \/ f > Len(delim)
                        pastName == ~res.err \/ f > Len(pre)
                        called == pastName /\ r.called
                        ok == ~res.err /\ ~r.panic
                    IN /\ Sink(res)
                       /\ pc' = IF res.err THEN "Err"
                                ELSE IF r.panic THEN "panic" ELSE "loop"
                       /\ stack' = IF pastDelim /\ ShouldPush(boundary)
                                   THEN Append(stack, [it |-> Tail(it), boundary |-> boundary])
                                   ELSE stack
                       /\ COUNTER' = IF called
                                     THEN [COUNTER EXCEPT ![MainThread] = NextCounter(@)]
                                     ELSE COUNTER
                       /\ made' = IF called THEN Append(made, [by |-> MainThread, b |-> fresh])
                                  ELSE made
                       /\ boundary' = IF ok THEN r.boundary ELSE boundary
                       /\ it' = IF ok THEN part.parts ELSE Tail(it)
                       /\ resolved' = IF ok THEN [resolved EXCEPT ![n] = r.boundary]
                                      ELSE resolved
          /\ visited' = Append(visited, n)
    /\ UNCHANGED <<tree, threadHash, addrVars>>

\* the cursor is exhausted and the stack holds a frame: close, then pop
PopFrame ==
    /\ pc = "loop" /\ it = <<>> /\ stack # <<>>
    /\ LET chunks == CloseDelim(boundary) IN
       \E f \in 0..Len(chunks) :
         LET res == SinkStep(chunks, f) IN
         /\ Sink(res)
         /\ IF res.err
            THEN /\ pc' = "Err"
                 /\ UNCHANGED <<it, boundary, stack>>
            ELSE /\ pc' = "loop"
                 /\ it' = stack[Len(stack)].it
                 /\ boundary' = stack[Len(stack)].boundary
                 /\ stack' = SubSeq(stack, 1, Len(stack) - 1)
    /\ UNCHANGED <<tree, visited, resolved, COUNTER, threadHash, made, addrVars>>

\* the cursor is exhausted and the stack is empty: close, then break; Ok(0)
Finish ==
    /\ pc = "loop" /\ it = <<>> /\ stack = <<>>
    /\ LET chunks == CloseDelim(boundary) IN
       \E f \in 0..Len(chunks) :
         LET res == SinkStep(chunks, f) IN
         /\ Sink(res)
         /\ pc' = IF res.err THEN "Err" ELSE "Ok"
    /\ UNCHANGED <<tree, it, boundary, stack, visited, resolved,
                   COUNTER, threadHash, made, addrVars>>

\* the hash of (hostname, thread id) of the thread that runs write_part
HashOfMain == Modulus - 2

Init ==
    /\ tree \in Trees
    /\ it = <<Root>>
    /\ boundary = <<>>
    /\ stack = <<>>
    /\ output = <<>>
    /\ pc = "loop"
    /\ attempts = 0
    /\ rejected = 0
    /\ visited = <<>>
    /\ resolved = [n \in DOMAIN tree |-> <<>>]
    /\ COUNTER = [t \in Threads |-> 0]
    /\ threadHash = [t \in Threads |-> HashOfMain]
    /\ made = <<>>
    /\ addr = [kind |-> "List", items |-> <<>>]
    /\ hdr = "To"
    /\ quoting = TRUE
    /\ pos = 0
    /\ bytes_written = 0

Next == VisitText \/ VisitBinary \/ VisitMultipart \/ PopFrame \/ Finish

Spec == Init /\ [][Next]_vars

\* write_part is one sequential loop: a step that can be taken is taken
FairSpec == Spec /\ WF_vars(Next)

----------------------------------------------------------------------------
(* write_part on a single leaf, with every body over a small alphabet *)

MaxBody == 3        \* bytes of a leaf's body

ByteValues == {"a", "\r", "\n"}

BodyInputs == UNION { [1..k -> ByteValues] : k \in 0..MaxBody }

\* leaves whose encoding the heuristic decides: Text leaves, and Binary
\* leaves with a textual Content-Type
BodyLeaves ==
    { Part(c, Headers(cd, <<ContentType("text/plain", <<>>)>>), b, e) :
        c \in {"Text", "Binary"}, cd \in {<<>>, Inline, Attachment},
        b \in BodyInputs, e \in EncodingTypes }

InitBody ==
    /\ tree \in { <<leaf>> : leaf \in BodyLeaves }
    /\ it = <<Root>>
    /\ boundary = <<>>
    /\ stack = <<>>
    /\ output = <<>>
    /\ pc = "loop"
    /\ attempts = 0
    /\ rejected = 0
    /\ visited = <<>>
    /\ resolved = [n \in DOMAIN tree |-> <<>>]
    /\ COUNTER = [t \in Threads |-> 0]
    /\ threadHash = [t \in Threads |-> HashOfMain]
    /\ made = <<>>
    /\ addr = [kind |-> "List", items |-> <<>>]
    /\ hdr = "To"
    /\ quoting = TRUE
    /\ pos = 0
    /\ bytes_written = 0

NextBody == VisitText \/ VisitBinary \/ Finish

SpecBody == InitBody /\ [][NextBody]_vars

----------------------------------------------------------------------------
(* Address::write_header: the inputs *)

MaxList == 3        \* elements of an Address::List

\* the column a header line must stay under
FoldLimit == 76

EmailAddress(name, email) == [kind |-> "Address", name |-> name, email |-> email]
GroupedAddresses(name, addresses) ==
    [kind |-> "Group", name |-> name, addresses |-> addresses]
AddressList(items) == [kind |-> "List", items |-> items]

Ten == "abcdefghij"
Email5 == "a@b.c"
Email13 == "abcdefg@hij.k"
Email69 == Ten \o Ten \o Ten \o Ten \o Ten \o Ten \o "abc@d.efg"

Singles ==
    { EmailAddress(<<>>, Email13), EmailAddress(<<>>, Email69),
      EmailAddress(<<"Al">>, Email5), EmailAddress(<<"Al">>, Email69) }

Groups ==
    { GroupedAddresses(<<"G">>, <<>>),
      GroupedAddresses(<<"G">>, <<EmailAddress(<<"Al">>, Email13),
                                   EmailAddress(<<>>, Email69)>>),
      GroupedAddresses(<<>>, <<EmailAddress(<<>>, Email5),
                                AddressList(<<>>)>>) }

Elements == Singles \cup Groups \cup {AddressList(<<>>)}

Addresses ==
    Singles \cup Groups
    \cup { AddressList(items) :
             items \in UNION { [1..n -> Elements] : n \in 0..MaxList } }

HeaderNames == {"To", "Reply-To"}

----------------------------------------------------------------------------
(* Address::write_header *)

Piece(el, kind, text) == [el |-> el, kind |-> kind, text |-> text]

Fold == "\r\n\t"

\* rfc2047_encode of a plain ASCII display name: the name as it is, within
\* double quotes if the encoder quotes; the bytes it reports as written
Rfc2047Text(name, q) == IF q THEN Quote \o name \o Quote ELSE name

\* the width Address::write_header estimates for a list element
Estimate(a) ==
    CASE a.kind = "Address" ->
           Len(a.email) + (IF a.name = <<>> THEN 0 ELSE Len(a.name[1]) + 3) + 2
      [] a.kind = "Group" ->
           IF a.name = <<>> THEN 0 ELSE Len(a.name[1]) + 2
      [] OTHER -> 0

\* EmailAddress::write_header(output, bw): its writes and its return value
EmailWrite(el, a, bw, q) ==
    LET named == a.name # <<>>
        text == IF named THEN Rfc2047Text(a.name[1], q) ELSE ""
        bw1 == IF named THEN bw + Len(text) ELSE bw
        folds == named /\ bw1 + Len(a.email) + 2 >= FoldLimit
        bw2 == IF ~named THEN bw ELSE IF folds THEN 1 ELSE bw1 + 1
    IN [chunks |-> (IF named
                    THEN << Piece(el, "name", text),
                            IF folds THEN Piece(el, "fold", Fold)
                            ELSE Piece(el, "sp", " ") >>
                    ELSE <<>>)
                   \o << Piece(el, "lt", "<"), Piece(el, "email", a.email),
                         Piece(el, "gt", ">") >>,
        ret |-> bw2 + Len(a.email) + 2]

\* the member loop of GroupedAddresses::write_header, from member i on
RECURSIVE GroupMembers(_, _, _, _, _)
GroupMembers(el, g, i, bw, q) ==
    IF i > Len(g.addresses)
    THEN [chunks |-> <<>>, ret |-> bw, panic |-> FALSE]
    ELSE LET a == g.addresses[i] IN
         IF a.kind # "Address"
         THEN [chunks |-> <<>>, ret |-> bw, panic |-> TRUE]
         ELSE LET folds == bw + Len(a.email)
                              + (IF a.name = <<>> THEN 0 ELSE Len(a.name[1]) + 3)
                              + 2 >= FoldLimit
                  bw1 == IF folds THEN 1 ELSE bw
                  w == EmailWrite(el, a, bw1, q)
                  bw2 == bw1 + w.ret
                  last == ~(i - 1 < Len(g.addresses) - 1)
                  rest == GroupMembers(el, g, i + 1, IF last THEN bw2 ELSE bw2 + 2, q)
              IN [chunks |-> (IF folds THEN <<Piece(el, "gfold", Fold)>> ELSE <<>>)
                             \o w.chunks
                             \o (IF last THEN <<>> ELSE <<Piece(el, "msep", ", ")>>)
                             \o rest.chunks,
                  ret |-> rest.ret,
                  panic |-> rest.panic]

\* GroupedAddresses::write_header(output, bw)
GroupWrite(el, g, bw, q) ==
    LET named == g.name # <<>>
        text == IF named THEN Rfc2047Text(g.name[1], q) ELSE ""
        bw1 == IF named THEN bw + Len(text) + 2 ELSE bw
        m == GroupMembers(el, g, 1, bw1, q)
    IN [chunks |-> (IF named
                    THEN <<Piece(el, "gname", text), Piece(el, "colon", ": ")>>
                    ELSE <<>>)
                   \o m.chunks,
        ret |-> m.ret,
        panic |-> m.panic]

\* if pos < list.len() - 1
NotLastAlways(p, n) == TRUE
NotLast(p, n) == p < n - 1

\* what the list loop adds to bytes_written for a separator
SepWidth == 1

\* the list loop's fold test before an element
ListFolds(bw, a) == bw + Estimate(a) >= FoldLimit

Items == addr.items

\* Address::Address(address): address.write_header, then the final CRLF
RenderSingle ==
    /\ pc = "loop" /\ addr.kind = "Address"
    /\ LET w == EmailWrite(1, addr, bytes_written, quoting)
           chunks == w.chunks \o <<Piece(0, "crlf", CRLF)>>
       IN \E f \in 0..Len(chunks) :
            LET res == SinkStep(chunks, f) IN
            /\ Sink(res)
            /\ pc' = IF res.err THEN "Err" ELSE "Ok"
    /\ UNCHANGED <<mimeTraversal, boundaryVars, addrVars>>

\* Address::Group(group): group.write_header, then the final CRLF
RenderGroup ==
    /\ pc = "loop" /\ addr.kind = "Group"
    /\ LET w == GroupWrite(1, addr, bytes_written, quoting)
           chunks == w.chunks \o (IF w.panic THEN <<>> ELSE <<Piece(0, "crlf", CRLF)>>)
       IN \E f \in 0..Len(chunks) :
            LET res == SinkStep(chunks, f) IN
            /\ Sink(res)
            /\ pc' = IF res.err THEN "Err" ELSE IF w.panic THEN "panic" ELSE "Ok"
    /\ UNCHANGED <<mimeTraversal, boundaryVars, addrVars>>

\* Address::List: one turn of the loop on an Address::Address element
ListAddress ==
    /\ pc = "loop" /\ addr.kind = "List" /\ pos < Len(Items)
    /\ LET a == Items[pos + 1]
           folds == ListFolds(bytes_written, a)
           bw1 == IF folds THEN 1 ELSE bytes_written
           w == EmailWrite(pos + 1, a, bw1, quoting)
           sep == NotLast(pos, Len(Items))
           chunks == (IF folds THEN <<Piece(pos + 1, "lfold", Fold)>> ELSE <<>>)
                     \o w.chunks
                     \o (IF sep THEN <<Piece(pos + 1, "sep", ", ")>> ELSE <<>>)
       IN /\ a.kind = "Address"
          /\ \E f \in 0..Len(chunks) :
               LET res == SinkStep(chunks, f) IN
               /\ Sink(res)
               /\ pc' = IF res.err THEN "Err" ELSE "loop"
               /\ pos' = IF res.err THEN pos ELSE pos + 1
               /\ bytes_written' =
                    IF res.err THEN bytes_written
                    ELSE bw1 + w.ret + (IF sep THEN SepWidth ELSE 0)
    /\ UNCHANGED <<mimeTraversal, boundaryVars, addr, hdr, quoting>>

\* Address::List: one turn of the loop on an Address::Group element
ListGroup ==
    /\ pc = "loop" /\ addr.kind = "List" /\ pos < Len(Items)
    /\ LET a == Items[pos + 1]
           folds == ListFolds(bytes_written, a)
           bw1 == IF folds THEN 1 ELSE bytes_written
           w == GroupWrite(pos + 1, a, bw1, quoting)
           sep == ~w.panic /\ NotLast(pos, Len(Items))
           chunks == (IF folds THEN <<Piece(pos + 1, "lfold", Fold)>> ELSE <<>>)
                     \o w.chunks
                     \o (IF sep THEN <<Piece(pos + 1, "sep", "; ")>> ELSE <<>>)
       IN /\ a.kind = "Group"
          /\ \E f \in 0..Len(chunks) :
               LET res == SinkStep(chunks, f)
                   ok == ~res.err /\ ~w.panic
               IN /\ Sink(res)
                  /\ pc' = IF res.err THEN "Err"
                           ELSE IF w.panic THEN "panic" ELSE "loop"
                  /\ pos' = IF ok THEN pos + 1 ELSE pos
                  /\ bytes_written' =
                       IF ok THEN bw1 + w.ret + (IF sep THEN SepWidth ELSE 0)
                       ELSE bytes_written
    /\ UNCHANGED <<mimeTraversal, boundaryVars, addr, hdr, quoting>>

\* Address::List: one turn of the loop on an Address::List element:
\* the fold test with width 0, then unreachable!()
ListList ==
    /\ pc = "loop" /\ addr.kind = "List" /\ pos < Len(Items)
    /\ LET a == Items[pos + 1]
           folds == ListFolds(bytes_written, a)
           chunks == IF folds THEN <<Piece(pos + 1, "lfold", Fold)>> ELSE <<>>
       IN /\ a.kind = "List"
          /\ \E f \in 0..Len(chunks) :
               LET res == SinkStep(chunks, f) IN
               /\ Sink(res)
               /\ pc' = IF res.err THEN "Err" ELSE "panic"
    /\ UNCHANGED <<mimeTraversal, boundaryVars, addrVars>>

\* Address::List: the loop is over; the final CRLF; Ok(0)
ListFinish ==
    /\ pc = "loop" /\ addr.kind = "List" /\ pos = Len(Items)
    /\ LET chunks == <<Piece(0, "crlf", CRLF)>> IN
       \E f \in 0..Len(chunks) :
         LET res == SinkStep(chunks, f) IN
         /\ Sink(res)
         /\ pc' = IF res.err THEN "Err" ELSE "Ok"
    /\ UNCHANGED <<mimeTraversal, boundaryVars, addrVars>>

InitAddr ==
    /\ addr \in Addresses
    /\ hdr \in HeaderNames
    /\ quoting \in BOOLEAN
    /\ pos = 0
    /\ bytes_written = Len(hdr) + 2
    /\ output = <<>>
    /\ pc = "loop"
    /\ attempts = 0
    /\ rejected = 0
    /\ tree = <<PlainText>>
    /\ it = <<>>
    /\ boundary = <<>>
    /\ stack = <<>>
    /\ visited = <<>>
    /\ resolved = <<>>
    /\ COUNTER = [t \in Threads |-> 0]
    /\ threadHash = [t \in Threads |-> HashOfMain]
    /\ made = <<>>

NextAddr ==
    RenderSingle \/ RenderGroup \/ ListAddress \/ ListGroup \/ ListList
    \/ ListFinish

SpecAddr == InitAddr /\ [][NextAddr]_vars

----------------------------------------------------------------------------
(* make_boundary called from several threads *)

MaxCalls == 4       \* calls of make_boundary in one run

\* values the hash of (hostname, thread id) may take
HashValues == {0, 1, Modulus - 1}

\* thread t calls make_boundary()
Call(t) ==
    /\ pc = "idle" /\ Len(made) < MaxCalls
    /\ \E ts \in Times :
         made' = Append(made, [by |-> t,
                               b |-> MakeBoundary(ts, threadHash[t], COUNTER[t])])
    /\ COUNTER' = [COUNTER EXCEPT ![t] = NextCounter(@)]
    /\ UNCHANGED <<mimeVars, threadHash, addrVars>>

InitBoundary ==
    /\ threadHash \in [Threads -> HashValues]
    /\ COUNTER = [t \in Threads |-> 0]
    /\ made = <<>>
    /\ pc = "idle"
    /\ tree = <<PlainText>>
    /\ it = <<>>
    /\ boundary = <<>>
    /\ stack = <<>>
    /\ output = <<>>
    /\ attempts = 0
    /\ rejected = 0
    /\ visited = <<>>
    /\ resolved = <<>>
    /\ addr = [kind |-> "List", items |-> <<>>]
    /\ hdr = "To"
    /\ quoting = TRUE
    /\ pos = 0
    /\ bytes_written = 0

NextBoundary == \E t \in Threads : Call(t)

SpecBoundary == InitBoundary /\ [][NextBoundary]_vars

----------------------------------------------------------------------------
(* Claims about MimePart::write_part, checked under Spec *)

Event(e, n, line) == [e |-> e, n |-> n, line |-> line]

\* What the output shows of the structure: an event per delimiter line (its
\* three writes joined) and an event where the first write of a part stands
RECURSIVE Skeleton(_, _)
Skeleton(out, i) ==
    IF i > Len(out) THEN <<>>
    ELSE LET c == out[i]
             line == c.bytes
                     \o (IF i + 1 <= Len(out) THEN out[i + 1].bytes ELSE <<>>)
                     \o (IF i + 2 <= Len(out) THEN out[i + 2].bytes ELSE <<>>)
         IN CASE c.kind = "open1" ->
                   <<Event("open", 0, line)>> \o Skeleton(out, i + 3)
              [] c.kind = "close1" ->
                   <<Event("close", 0, line)>> \o Skeleton(out, i + 3)
              [] c.node # 0 /\ \A j \in 1..(i - 1) : out[j].node # c.node ->
                   <<Event("part", c.node, <<>>)>> \o Skeleton(out, i + 1)
              [] OTHER -> Skeleton(out, i + 1)

\* The structure the tree asks for, with the boundary resolved for each
\* multipart: per child an opening line then the child, then one closing line
RECURSIVE ExpectedSkeleton(_)
ExpectedSkeleton(n) ==
    <<Event("part", n, <<>>)>>
    \o (IF tree[n].contents # "Multipart" THEN <<>>
        ELSE LET b == resolved[n][1]
                 kids == tree[n].parts
             IN Concat([k \in 1..Len(kids) |->
                          <<Event("open", 0, <<CRLF, "--">> \o b \o <<CRLF>>)>>
                          \o ExpectedSkeleton(kids[k])])
                \o <<Event("close", 0, <<CRLF, "--">> \o b \o <<"--", CRLF>>)>>)

\* C1: once write_part has returned Ok, the output holds, for every
\* multipart node with boundary b and k children, exactly k opening lines
\* \r\n--b\r\n, each right before one child and in child order, and exactly
\* one closing line \r\n--b--\r\n after the last child, a nested multipart's
\* lines lying between its own opening line and its parent's next delimiter.
C1_DelimitersNest == pc = "Ok" => Skeleton(output, 1) = ExpectedSkeleton(Root)

\* a finished run over a multipart whose first child is a multipart with a
\* child of its own, followed by a sibling
C1_Witness ==
    /\ pc = "Ok"
    /\ \E n \in Nodes, m \in Nodes :
         /\ tree[n].contents = "Multipart" /\ Len(tree[n].parts) >= 2
         /\ tree[n].parts[1] = m
         /\ tree[m].contents = "Multipart" /\ Len(tree[m].parts) >= 1
         /\ resolved[n] # resolved[m]

ChunksOf(n, kinds) == SelectSeq(output, LAMBDA c : c.node = n /\ c.kind \in kinds)

RECURSIVE BytesOf(_)
BytesOf(chunks) ==
    IF chunks = <<>> THEN <<>> ELSE Head(chunks).bytes \o BytesOf(Tail(chunks))

IndicesOf(n, kinds) ==
    {i \in 1..Len(output) : output[i].node = n /\ output[i].kind \in kinds}

\* C2: for every multipart node whose headers write_part has written, the
\* Content-Type line is written once, is complete (name, value, CRLF),
\* declares the boundary the node's delimiters use as boundary="...", and
\* stands before the node's other headers.
C2_ContentTypeDeclaresBoundary ==
    \A n \in Nodes :
        resolved[n] # <<>> =>
            LET line == BytesOf(ChunksOf(n, {"ctname", "ctvalue"})) IN
            /\ Cardinality(IndicesOf(n, {"ctname"})) = 1
            /\ Len(line) >= 3
            /\ line[1] = "Content-Type: "
            /\ line[Len(line)] = CRLF
            /\ Contains(line, <<"boundary=", Quote>> \o resolved[n][1] \o <<Quote>>)
            /\ \A i \in IndicesOf(n, {"ctname", "ctvalue"}),
                  j \in IndicesOf(n, {"hname", "hsep", "hvalue"}) : i < j

\* whether the part's Content-Type header is a ContentType value for text
Textual(n) ==
    \E i \in 1..Len(tree[n].headers) :
        /\ tree[n].headers[i].name = "Content-Type"
        /\ tree[n].headers[i].value.t = "ContentType"
        /\ tree[n].headers[i].value.c_type \in {"text/plain", "text/html"}

EncodingLine(enc) ==
    CASE enc = "Base64" -> Base64Line
      [] enc = "QuotedPrintable" ->
           <<"Content-Transfer-Encoding: quoted-printable", CRLF, CRLF>>
      [] OTHER -> <<"Content-Transfer-Encoding: 7bit", CRLF, CRLF>>

Written(n) == IndicesOf(n, {"body"}) # {}

\* C5: a Binary leaf without a textual Content-Type is written as
\* Content-Transfer-Encoding: base64 with a base64 body, whatever the
\* heuristic would answer and whatever its Content-Disposition; the
\* heuristic's answer decides the encoding line of every other leaf.
C5_BinaryIsBase64 ==
    \A n \in Nodes :
        /\ tree[n].contents = "Binary" /\ ~Textual(n) /\ Written(n) =>
               /\ BytesOf(ChunksOf(n, {"cte"})) = Base64Line
               /\ BytesOf(ChunksOf(n, {"body"})) = Base64Encode(tree[n].body)
        /\ /\ \/ tree[n].contents = "Text"
              \/ tree[n].contents = "Binary" /\ Textual(n)
           /\ Written(n)
           => BytesOf(ChunksOf(n, {"cte"})) = EncodingLine(tree[n].enc)

\* a finished run with a Binary attachment of no textual type for which the
\* heuristic would not have chosen base64
C5_Witness ==
    /\ pc = "Ok"
    /\ \E n \in Nodes :
         /\ tree[n].contents = "Binary" /\ ~Textual(n)
         /\ tree[n].enc = "None"
         /\ HeadersGet(tree[n].headers, "Content-Disposition") = Attachment
         /\ HeadersGet(tree[n].headers, "Content-Type") # <<>>

\* C6: the first write the sink rejects is the last write attempted; no part
\* is visited after it and write_part returns the error; write_part returns
\* Ok only if the sink rejected nothing.
C6_ErrorStopsTraversal ==
    /\ [](/\ attempts = Len(output) + rejected
          /\ rejected \in {0, 1}
          /\ (rejected = 1) <=> (pc = "Err")
          /\ pc = "Ok" => rejected = 0)
    /\ [][pc = "Err" => /\ output' = output /\ attempts' = attempts
                        /\ visited' = visited /\ pc' = "Err"]_vars

\* the sink rejects a write inside a nested multipart, after some output
C6_Witness ==
    /\ pc = "Err" /\ stack # <<>> /\ Len(output) > 6 /\ Len(visited) >= 3

\* the boundary attribute a ContentType header of the part carries, if any
ExplicitBoundary(part) ==
    LET ctv == HeadersGet(part.headers, "Content-Type") IN
    IF ctv # <<>> /\ ctv[1].t = "ContentType"
    THEN AttrGet(ctv[1].attributes, "boundary") ELSE <<>>

\* the part has a Raw Content-Type that holds boundary=" already
RawBoundary(part) ==
    LET ctv == HeadersGet(part.headers, "Content-Type") IN
    ctv # <<>> /\ ctv[1].t = "Raw" /\ Contains(ctv[1].raw, BoundaryPattern)

\* C9: visiting a multipart whose ContentType carries a boundary attribute
\* makes that value the active boundary and leaves make_boundary uncalled
\* and COUNTER unchanged; make_boundary is called only for a multipart with
\* no boundary of its own; a multipart with no Content-Type is written as
\* multipart/mixed with the fresh boundary.
C9_ExplicitBoundaryKept ==
    /\ [][pc = "loop" /\ it # <<>> =>
            LET part == tree[Head(it)] IN
            /\ ExplicitBoundary(part) # <<>> /\ part.contents = "Multipart" =>
                  /\ COUNTER' = COUNTER /\ made' = made
                  /\ pc' = "loop" => /\ boundary' = ExplicitBoundary(part)
                                     /\ resolved'[Head(it)] = ExplicitBoundary(part)
            /\ made' # made =>
                  /\ part.contents = "Multipart"
                  /\ ExplicitBoundary(part) = <<>> /\ ~RawBoundary(part)
                  /\ COUNTER'[MainThread] = COUNTER[MainThread] + 1
            /\ /\ part.contents = "Multipart" /\ pc' = "loop"
               /\ HeadersGet(part.headers, "Content-Type") = <<>>
               => /\ made' # made
                  /\ boundary' = <<made'[Len(made')].b>>]_vars
    /\ [](\A n \in Nodes :
            resolved[n] # <<>> /\ HeadersGet(tree[n].headers, "Content-Type") = <<>>
            => BytesOf(ChunksOf(n, {"ctvalue"})) =
                  <<"multipart/mixed", "; ", "boundary=", Quote>>
                  \o resolved[n][1] \o <<Quote, CRLF>>)
    /\ [](pc \in {"loop", "Ok", "Err", "panic"} =>
            (made = <<>>) <=> (COUNTER[MainThread] = 0))

\* a multipart with an explicit boundary was entered after a boundary had
\* been synthesized for its parent
C9_Witness ==
    /\ COUNTER[MainThread] = 1
    /\ \E n \in Nodes :
         /\ n # Root /\ tree[n].contents = "Multipart"
         /\ ExplicitBoundary(tree[n]) = <<<<"X">>>>
         /\ resolved[n] = <<<<"X">>>>
         /\ boundary = <<<<"X">>>>

----------------------------------------------------------------------------
(* The traversal of write_part, checked under FairSpec *)

\* the parts of the subtree of n in document order
RECURSIVE Preorder(_)
Preorder(n) ==
    <<n>> \o Concat([k \in 1..Len(tree[n].parts) |-> Preorder(tree[n].parts[k])])

Max(S) == CHOOSE x \in S : \A y \in S : x >= y

\* the number of multiparts nested in one another, from n down
RECURSIVE MultipartDepth(_)
MultipartDepth(n) ==
    IF tree[n].contents # "Multipart" THEN 0
    ELSE 1 + Max({0} \cup { MultipartDepth(tree[n].parts[k]) :
                              k \in 1..Len(tree[n].parts) })

\* the parts in the order of their first write on the output
RECURSIVE FirstWrites(_, _)
FirstWrites(out, i) ==
    IF i > Len(out) THEN <<>>
    ELSE (IF out[i].node # 0 /\ \A j \in 1..(i - 1) : out[j].node # out[i].node
          THEN <<out[i].node>> ELSE <<>>)
         \o FirstWrites(out, i + 1)

\* the writes of a part stand together: between two writes of one part
\* there is no write of another part
Contiguous(out) ==
    \A i \in 1..Len(out), j \in 1..Len(out) :
        i < j /\ out[i].node # 0 /\ out[i].node = out[j].node
        => \A k \in i..j : out[k].node \in {0, out[i].node}

IsPrefix(s, t) == Len(s) <= Len(t) /\ s = SubSeq(t, 1, Len(s))

\* no multipart carries a Content-Type that is neither a ContentType nor a
\* Raw value (the value write_part panics on)
Supported ==
    \A n \in Nodes :
        tree[n].contents = "Multipart" =>
            LET ctv == HeadersGet(tree[n].headers, "Content-Type") IN
            ctv = <<>> \/ ctv[1].t \in {"ContentType", "Raw"}

\* what C11 says of every state and step of a run: parts are visited and
\* written in document order, each once; the stack is no deeper than the
\* multipart nesting minus one and every stacked boundary is present; a frame
\* is pushed only on descending into a multipart from inside an active
\* boundary, and holds the remaining siblings and that boundary; a run that
\* returns Ok has visited and written every part and left the stack empty
TraversalSafe ==
    /\ [](/\ IsPrefix(visited, Preorder(Root))
          /\ IsPrefix(FirstWrites(output, 1), visited)
          /\ Contiguous(output)
          /\ Len(stack) <= Max({0, MultipartDepth(Root) - 1})
          /\ \A k \in 1..Len(stack) : stack[k].boundary # <<>>
          /\ pc = "Ok" => /\ visited = Preorder(Root)
                          /\ FirstWrites(output, 1) = Preorder(Root)
                          /\ stack = <<>>)
    /\ [][Len(stack') > Len(stack) =>
            /\ boundary # <<>>
            /\ it # <<>> /\ tree[Head(it)].contents = "Multipart"
            /\ stack' = Append(stack, [it |-> Tail(it), boundary |-> boundary])]_vars

\* C11 as stated: for any tree, a run in which the sink rejects nothing
\* returns Ok, with the traversal as above
C11_AnyTreeIsTraversed ==
    /\ TraversalSafe
    /\ <>(pc = "Ok" \/ rejected > 0)

\* C11 as amended: for any tree in which no multipart carries an unsupported
\* Content-Type value, a run in which the sink rejects nothing returns Ok,
\* having visited and written every part once in depth-first document
\* order, with the stack discipline above and an empty stack at the end
C11_SupportedTreeIsTraversed ==
    /\ TraversalSafe
    /\ Supported => <>(pc = "Ok" \/ rejected > 0)

\* a finished run over three multiparts nested in one another, the innermost
\* with a child: two frames were pushed and popped
C11_Witness ==
    /\ pc = "Ok" /\ rejected = 0
    /\ MultipartDepth(Root) = 3
    /\ Len(tree) = 4
    /\ visited = <<1, 2, 3, 4>>
    /\ stack = <<>>

----------------------------------------------------------------------------
(* The 7bit body, checked under SpecBody *)

\* the input with "\r\n" in the place of every "\n" that does not follow a
\* "\r", every other byte kept
Normalized(input) ==
    Concat([i \in 1..Len(input) |->
              IF input[i] = "\n" /\ (i = 1 \/ input[i - 1] # "\r")
              THEN <<"\r", "\n">>
              ELSE <<input[i]>>])

\* whether the part carries a Content-Disposition header that denotes an
\* attachment
DenotesAttachment(n) ==
    \E i \in 1..Len(tree[n].headers) :
        /\ tree[n].headers[i].name = "Content-Disposition"
        /\ tree[n].headers[i].value.t = "ContentType"
        /\ tree[n].headers[i].value.c_type = "attachment"

\* the leaf was visited and the sink rejected none of its writes
WrittenWhole(n) ==
    /\ \E i \in 1..Len(visited) : visited[i] = n
    /\ ~(pc = "Err" /\ visited[Len(visited)] = n)

SevenBitLine == <<"Content-Transfer-Encoding: 7bit", CRLF, CRLF>>

\* no "\n" of s stands first or after a byte other than "\r"
EveryLFAfterCR(s) ==
    \A i \in 1..Len(s) : s[i] = "\n" => i > 1 /\ s[i - 1] = "\r"

\* C12: a leaf written whole under Content-Transfer-Encoding: 7bit that is
\* no attachment has as body its input with every "\n" that does not follow
\* a "\r" replaced by "\r\n" and every other byte kept in order, so every
\* "\n" written follows a "\r" and an input in which every "\n" already
\* follows a "\r" is written unchanged; an attachment's body is its input,
\* byte for byte.  A body cut short by the sink is a prefix of that.
C12_SevenBitBodyNormalized ==
    \A n \in Nodes :
        tree[n].contents # "Multipart"
        /\ BytesOf(ChunksOf(n, {"cte"})) = SevenBitLine
        => LET written == BytesOf(ChunksOf(n, {"body"}))
               input == tree[n].body
           IN IF DenotesAttachment(n)
              THEN /\ IsPrefix(written, input)
                   /\ WrittenWhole(n) => written = input
              ELSE /\ IsPrefix(written, Normalized(input))
                   /\ WrittenWhole(n) =>
                        /\ written = Normalized(input)
                        /\ EveryLFAfterCR(written)
                        /\ EveryLFAfterCR(input) => written = input

\* a finished run over a body leaf written as 7bit whose input has a "\n"
\* after a "\r" and a bare "\n"
C12_Witness ==
    /\ pc = "Ok"
    /\ tree[Root].contents = "Text" /\ ~DenotesAttachment(Root)
    /\ tree[Root].enc = "None"
    /\ tree[Root].body = <<"\r", "\n", "\n">>
    /\ BytesOf(ChunksOf(Root, {"body"})) = <<"\r", "\n", "\r", "\n">>

----------------------------------------------------------------------------
(* Claims about make_boundary, checked under SpecBoundary *)

\* C4 as stated: any two calls of make_boundary, on one thread or on
\* different threads, return different strings
C4_AllDistinct ==
    \A i \in 1..Len(made), j \in 1..Len(made) : i # j => made[i].b # made[j].b

\* C4 as amended: two calls return different strings if they are made on
\* the same thread, or on threads whose (hostname, thread id) hashes differ
C4_DistinctUnlessHashesCollide ==
    \A i \in 1..Len(made), j \in 1..Len(made) :
        /\ i # j
        /\ \/ made[i].by = made[j].by
           \/ threadHash[made[i].by] # threadHash[made[j].by]
        => made[i].b # made[j].b

\* two threads with different hashes have each called twice, and all four
\* calls observed the same timestamp
C4_Witness ==
    /\ Len(made) = 4
    /\ threadHash[1] # threadHash[2]
    /\ \A t \in {1, 2} : Cardinality({i \in 1..4 : made[i].by = t}) = 2
    /\ \A i \in 1..4 : made[i].b[1] = made[1].b[1]

----------------------------------------------------------------------------
(* Claims about Address::write_header, checked under SpecAddr *)

FoldKinds == {"fold", "gfold", "lfold"}

\* the length of the line the output ends with, the header name and ": "
\* counted on the first line and the tab on a continuation line
RECURSIVE Column(_)
Column(out) ==
    IF out = <<>> THEN Len(hdr) + 2
    ELSE LET p == out[Len(out)] IN
         IF p.kind \in FoldKinds THEN 1
         ELSE IF p.kind = "crlf" THEN 0
         ELSE Column(SubSeq(out, 1, Len(out) - 1)) + Len(p.text)

Prefix(i) == SubSeq(output, 1, i)

\* the line that ends with output[i] holds one address literal or one
\* display name, and that token alone is longer than the limit
SingleLongToken(i) ==
    LET breaks == {j \in 1..i : output[j].kind \in FoldKinds}
        start == IF breaks = {} THEN 0 ELSE CHOOSE j \in breaks : \A k \in breaks : k <= j
        toks == {j \in (start + 1)..i : output[j].kind \in {"name", "gname", "email"}}
    IN /\ Cardinality(toks) = 1
       /\ \A j \in toks :
            Len(output[j].text) + (IF output[j].kind = "email" THEN 2 ELSE 0) > FoldLimit

\* C3: no line of the rendered header is longer than 76 characters, unless
\* the line holds a single address literal or encoded-word that exceeds the
\* limit by itself
C3_LinesWithinLimit ==
    \A i \in 1..Len(output) :
        output[i].kind # "crlf" =>
            Column(Prefix(i)) <= FoldLimit \/ SingleLongToken(i)

\* C7: rendering a List never stops at an element that is itself a List
C7_NestedListDoesNotCrash ==
    ~(/\ pc = "panic" /\ addr.kind = "List" /\ pos < Len(Items)
      /\ Items[pos + 1].kind = "List")

\* the rendering of one EmailAddress, whitespace and folds left out
Tokens(a) ==
    (IF a.name = <<>> THEN <<>> ELSE <<Rfc2047Text(a.name[1], quoting)>>)
    \o <<"<", a.email, ">">>

RECURSIVE MemberTokens(_, _)
MemberTokens(ms, i) ==
    IF i > Len(ms) THEN <<>>
    ELSE Tokens(ms[i]) \o (IF i < Len(ms) THEN <<", ">> ELSE <<>>)
         \o MemberTokens(ms, i + 1)

ElementTokens(a) ==
    IF a.kind = "Address" THEN Tokens(a)
    ELSE (IF a.name = <<>> THEN <<>>
          ELSE <<Rfc2047Text(a.name[1], quoting), ": ">>)
         \o MemberTokens(a.addresses, 1)

RECURSIVE ListTokens(_, _)
ListTokens(items, i) ==
    IF i > Len(items) THEN <<>>
    ELSE ElementTokens(items[i])
         \o (IF i = Len(items) THEN <<>>
             ELSE IF items[i].kind = "Address" THEN <<", ">> ELSE <<"; ">>)
         \o ListTokens(items, i + 1)

\* the output with the fold sequences, and the blank a fold may replace,
\* left out
Unfolded ==
    LET kept == SelectSeq(output, LAMBDA p : p.kind \notin FoldKinds \cup {"sp"})
    IN [i \in 1..Len(kept) |-> kept[i].text]

\* C8: once write_header has returned Ok, the output without its folds is
\* every element once and in list order, ", " after each Single and "; "
\* after each Group that is not the last element, nothing after the last,
\* and then the one final CRLF; a lone Single or Group is the element and
\* the CRLF
C8_ElementsInOrder ==
    pc = "Ok" =>
        /\ Unfolded = (IF addr.kind = "List" THEN ListTokens(Items, 1)
                       ELSE ElementTokens(addr)) \o <<CRLF>>
        /\ Cardinality({i \in 1..Len(output) : output[i].kind = "crlf"}) = 1

\* a finished three-element list with a Group in the middle and a fold
C8_Witness ==
    /\ pc = "Ok" /\ addr.kind = "List" /\ Len(Items) = 3
    /\ Items[1].kind = "Address" /\ Items[2].kind = "Group"
    /\ Items[2].addresses # <<>>
    /\ Items[3].kind = "Address"
    /\ \E i \in 1..Len(output) : output[i].kind = "lfold"

\* C10: in a List, a fold stands before a Single or Group element if and
\* only if the length of the line written so far plus the element's
\* estimated width is at least 76
C10_FoldIffLineWouldOverflow ==
    addr.kind = "List" =>
        \A i \in 1..Len(output) :
            /\ output[i].el # 0
            /\ Items[output[i].el].kind # "List"
            /\ \A j \in 1..(i - 1) : output[j].el # output[i].el
            => ((output[i].kind = "lfold")
                <=> (Column(Prefix(i - 1)) + Estimate(Items[output[i].el])
                        >= FoldLimit))

====
